---------------------------- MODULE Spec2Model ----------------------------
(***************************************************************************)
(* A model of ondc_deeplink_consumer: the BecknProcessor (schema template  *)
(* compiler, dot-path mutator, static overlay, dynamic resolver pipeline,  *)
(* validator) and the HostMappingCache (singleton creation, lazy           *)
(* population of the host mapping).                                        *)
(*                                                                         *)
(* JSON values are tagged records:                                         *)
(*   [t |-> "str",  s |-> ...]            a Python str                     *)
(*   [t |-> "int",  n |-> ...]            a Python int                     *)
(*   [t |-> "none"]                       None                             *)
(*   [t |-> "list", l |-> <<...>>]        a Python list                    *)
(*   [t |-> "dict", d |-> [key -> value], id |-> identity]  a Python dict  *)
(* A dict is a mutable object, so it carries an identity: Anon for an      *)
(* object that only its parent refers to, <<i, q>> for the dict found at   *)
(* sub-path q of the value of the i-th entry of static_data, which the     *)
(* overlay inserts by reference (processor.py:97 does not copy `value`).   *)
(* Objects that a field of the processor refers to live in `heap`.         *)
(*                                                                         *)
(* A dot-separated key path is modelled by the sequence of its segments,   *)
(* which is what key_path.split('.') yields (never the empty sequence).    *)
(***************************************************************************)
EXTENDS Integers, Sequences, FiniteSets, TLC

\* ------------------------------------------------------------- bounds
\* Longest resolver list the model registers.
MaxResolvers == 2
\* Object identifiers available for the documents the processor refers to.
NumOids == 3
\* Tasks that each call get_resolver_host once.
NumTasks == 2
\* Threads that each call HostMappingCache.get_instance once.
NumThreads == 3
\* fetch_usecase calls made one after the other
MaxCalls == 3

\* --------------------------------------------------------- JSON values
Anon == <<0, <<>>>>
EmptyD == [k \in {} |-> 0]
Str(s) == [t |-> "str", s |-> s]
Num(n) == [t |-> "int", n |-> n]
NoneValue == [t |-> "none"]
List(l) == [t |-> "list", l |-> l]
Dict(d) == [t |-> "dict", d |-> d, id |-> Anon]
IsDict(v) == v.t = "dict"
IsList(v) == v.t = "list"

\* The value with every dict in it a new object: copy.deepcopy.
RECURSIVE DeepValue(_)
DeepValue(v) ==
  IF IsDict(v) THEN Dict([k \in DOMAIN v.d |-> DeepValue(v.d[k])])
  ELSE IF IsList(v) THEN List([i \in DOMAIN v.l |-> DeepValue(v.l[i])])
  ELSE v

\* Python's == on JSON values: structure only, never identity.
StructEq(a, b) == DeepValue(a) = DeepValue(b)

\* The dict found at sub-path q of overlay entry i's value gets identity <<i, q>>.
RECURSIVE Owned(_, _, _)
Owned(v, i, q) ==
  IF IsDict(v)
    THEN [t |-> "dict", id |-> <<i, q>>,
          d |-> [k \in DOMAIN v.d |-> Owned(v.d[k], i, Append(q, k))]]
  ELSE IF IsList(v) THEN List([j \in DOMAIN v.l |-> Owned(v.l[j], i, Append(q, "[]"))])
  ELSE v

\* Every dict object with an identity that occurs in v.
RECURSIVE Objects(_)
Objects(v) ==
  IF IsDict(v)
    THEN (IF v.id = Anon THEN {} ELSE {v}) \cup UNION {Objects(v.d[k]) : k \in DOMAIN v.d}
  ELSE IF IsList(v) THEN UNION {Objects(v.l[i]) : i \in DOMAIN v.l}
  ELSE {}

\* v as seen after the objects of `src` were written in place: every occurrence
\* in v of an object that src holds shows that object's content in src.
RECURSIVE Refresh(_, _)
Refresh(v, src) ==
  IF IsDict(v)
    THEN IF v.id # Anon /\ \E o \in Objects(src) : o.id = v.id
           THEN CHOOSE o \in Objects(src) : o.id = v.id
           ELSE [v EXCEPT !.d = [k \in DOMAIN v.d |-> Refresh(v.d[k], src)]]
  ELSE IF IsList(v) THEN List([i \in DOMAIN v.l |-> Refresh(v.l[i], src)])
  ELSE v

\* The value at a path of segments, NoneValue when the path leads nowhere.
RECURSIVE GetPath(_, _)
GetPath(v, keys) ==
  IF keys = <<>> THEN v
  ELSE IF IsDict(v) /\ Head(keys) \in DOMAIN v.d THEN GetPath(v.d[Head(keys)], Tail(keys))
  ELSE NoneValue

RECURSIVE HasPath(_, _)
HasPath(v, keys) ==
  IF keys = <<>> THEN TRUE
  ELSE IF IsDict(v) /\ Head(keys) \in DOMAIN v.d THEN HasPath(v.d[Head(keys)], Tail(keys))
  ELSE FALSE

IsPrefix(p, q) == Len(p) <= Len(q) /\ SubSeq(q, 1, Len(p)) = p
IsProperPrefix(p, q) == IsPrefix(p, q) /\ Len(p) < Len(q)
Overlap(p, q) == IsPrefix(p, q) \/ IsPrefix(q, p)

\* ------------------------------------------------------------- schema
\* The schema of tests/test_beckn_processor.py (mock_schema) with one leaf of
\* each kind kept (const, plain, nested), and an array property added so that
\* the array branch of the compiler is exercised.
StringSchema == [type |-> "string"]
UsecaseSchema ==
  [type |-> "object",
   properties |->
     [context |->
        [type |-> "object",
         properties |->
           [domain |-> [type |-> "string", const |-> Str("mobility")],
            version |-> StringSchema,
            location |-> [type |-> "object", properties |-> [city |-> StringSchema]]]],
      message |->
        [type |-> "object",
         properties |->
           [dynamic_value |-> StringSchema,
            tags |-> [type |-> "array", items |-> StringSchema]]]]]

\* schema.get("type")
SchemaType(schema) == IF "type" \in DOMAIN schema THEN Str(schema.type) ELSE NoneValue

\* A schema fragment as the JSON value it is.
RECURSIVE JsonOf(_)
JsonOf(schema) ==
  Dict([k \in DOMAIN schema |->
          CASE k = "type" -> Str(schema.type)
            [] k = "properties" ->
                 Dict([p \in DOMAIN schema.properties |-> JsonOf(schema.properties[p])])
            [] k = "items" -> JsonOf(schema.items)
            [] OTHER -> schema[k]])

DescriptorKeys == {"properties", "items", "required", "oneOf", "additionalProperties"}

\* The compiler looking at the type before const.
RECURSIVE process_schema_type_first(_)
process_schema_type_first(schema) ==
  IF SchemaType(schema) = Str("object") /\ "properties" \in DOMAIN schema
    THEN Dict([key \in DOMAIN schema.properties |->
                 process_schema_type_first(schema.properties[key])])
  ELSE IF SchemaType(schema) = Str("array") /\ "items" \in DOMAIN schema
    THEN List(<<process_schema_type_first(schema.items)>>)
  ELSE IF "const" \in DOMAIN schema THEN schema.const
  ELSE Dict([key \in {"type"} \cup (DescriptorKeys \cap DOMAIN schema) |->
               IF key = "type" THEN SchemaType(schema) ELSE JsonOf(schema).d[key]])

\* The compiler without its array branch: an array node gets a descriptor.
RECURSIVE process_schema_no_array(_)
process_schema_no_array(schema) ==
  IF "const" \in DOMAIN schema THEN schema.const
  ELSE IF SchemaType(schema) = Str("object") /\ "properties" \in DOMAIN schema
    THEN Dict([key \in DOMAIN schema.properties |->
                 process_schema_no_array(schema.properties[key])])
  ELSE Dict([key \in {"type"} \cup (DescriptorKeys \cap DOMAIN schema) |->
               IF key = "type" THEN SchemaType(schema) ELSE JsonOf(schema).d[key]])

RECURSIVE process_schema_with_const(_)
process_schema_with_const(schema) ==
  IF "const" \in DOMAIN schema THEN schema.const
  ELSE IF SchemaType(schema) = Str("object") /\ "properties" \in DOMAIN schema
    THEN Dict([key \in DOMAIN schema.properties |->
                 process_schema_with_const(schema.properties[key])])
  ELSE IF SchemaType(schema) = Str("array") /\ "items" \in DOMAIN schema
    THEN List(<<process_schema_with_const(schema.items)>>)
  ELSE Dict([key \in {"type"} \cup (DescriptorKeys \cap DOMAIN schema) |->
               IF key = "type" THEN SchemaType(schema) ELSE JsonOf(schema).d[key]])

\* ------------------------------------------------------ dot-path mutator
\* The mutator with setdefault for the final assignment: a key that is there
\* keeps its value.
RECURSIVE SetNestedValue_keep(_, _, _)
SetNestedValue_keep(data, keys, value) ==
  IF Len(keys) = 1
    THEN IF keys[1] \in DOMAIN data.d THEN data
         ELSE [data EXCEPT !.d = (keys[1] :> value) @@ @]
    ELSE LET key == Head(keys)
             current == IF key \in DOMAIN data.d /\ IsDict(data.d[key])
                          THEN data.d[key] ELSE Dict(EmptyD)
         IN [data EXCEPT !.d = (key :> SetNestedValue_keep(current, Tail(keys), value)) @@ @]

\* The mutator that stops at an intermediate that is not a mapping.
RECURSIVE SetNestedValue_timid(_, _, _)
SetNestedValue_timid(data, keys, value) ==
  IF Len(keys) = 1
    THEN [data EXCEPT !.d = (keys[1] :> value) @@ @]
    ELSE LET key == Head(keys) IN
         IF key \in DOMAIN data.d /\ ~IsDict(data.d[key]) THEN data
         ELSE LET current == IF key \in DOMAIN data.d THEN data.d[key] ELSE Dict(EmptyD)
              IN [data EXCEPT !.d = (key :> SetNestedValue_timid(current, Tail(keys), value)) @@ @]

\* The mutator replacing every intermediate node with an empty mapping.
RECURSIVE SetNestedValue_reset(_, _, _)
SetNestedValue_reset(data, keys, value) ==
  IF Len(keys) = 1
    THEN [data EXCEPT !.d = (keys[1] :> value) @@ @]
    ELSE [data EXCEPT !.d = (Head(keys) :> SetNestedValue_reset(Dict(EmptyD), Tail(keys), value)) @@ @]

\* `data` after _set_nested_value(data, key_path, value), keys = key_path.split('.').
\* The dicts walked through keep their identity: they are written in place.
RECURSIVE SetNestedValue(_, _, _)
SetNestedValue(data, keys, value) ==
  IF Len(keys) = 1
    THEN [data EXCEPT !.d = (keys[1] :> value) @@ @]
    ELSE LET key == Head(keys)
             current == IF key \in DOMAIN data.d /\ IsDict(data.d[key])
                          THEN data.d[key]
                          ELSE Dict(EmptyD)
         IN [data EXCEPT !.d = (key :> SetNestedValue(current, Tail(keys), value)) @@ @]


\* ------------------------------------------------------------ validator
\* Draft7Validator's `type` check of an instance.
IsType(inst, ty) ==
  CASE ty = "string" -> inst.t = "str"
    [] ty = "object" -> inst.t = "dict"
    [] ty = "array" -> inst.t = "list"
    [] ty = "integer" -> inst.t = "int"
    [] ty = "null" -> inst.t = "none"
    [] OTHER -> FALSE

\* Draft7Validator(schema).iter_errors(instance): one error per violated keyword,
\* with the path of the violating instance (a list index i is the segment "i").
\* The keywords of the schemas modelled here: type, const, properties, items.
IndexKey(i) == CASE i = 1 -> "0" [] i = 2 -> "1" [] OTHER -> "n"
RECURSIVE iter_errors(_, _, _)
iter_errors(schema, inst, path) ==
  (IF "type" \in DOMAIN schema /\ ~IsType(inst, schema.type)
     THEN {[path |-> path, validator |-> "type"]} ELSE {})
  \cup
  (IF "const" \in DOMAIN schema /\ ~StructEq(inst, schema.const)
     THEN {[path |-> path, validator |-> "const"]} ELSE {})
  \cup
  (IF "properties" \in DOMAIN schema /\ IsDict(inst)
     THEN UNION {iter_errors(schema.properties[p], inst.d[p], Append(path, p)) :
                   p \in DOMAIN schema.properties \cap DOMAIN inst.d}
     ELSE {})
  \cup
  (IF "items" \in DOMAIN schema /\ IsList(inst)
     THEN UNION {iter_errors(schema.items, inst.l[i], Append(path, IndexKey(i))) :
                   i \in DOMAIN inst.l}
     ELSE {})


\* ---- sorted(errors, key=lambda e: e.path) ----
\* The characters of the keys, in code point order.
Alphabet == "-./0123456789:ABCDEFGHIJKLMNOPQRSTUVWXYZ_abcdefghijklmnopqrstuvwxyz"
Ord(c) == CHOOSE i \in 1 .. Len(Alphabet) : SubSeq(Alphabet, i, i) = c
\* a < b for strings.
RECURSIVE StrLess(_, _)
StrLess(a, b) ==
  IF b = "" THEN FALSE
  ELSE IF a = "" THEN TRUE
  ELSE LET x == Ord(SubSeq(a, 1, 1))
           y == Ord(SubSeq(b, 1, 1))
       IN IF x # y THEN x < y
          ELSE StrLess(SubSeq(a, 2, Len(a)), SubSeq(b, 2, Len(b)))
\* p < q for error paths (deques compare like sequences).
RECURSIVE PathLess(_, _)
PathLess(p, q) ==
  IF q = <<>> THEN FALSE
  ELSE IF p = <<>> THEN TRUE
  ELSE IF Head(p) # Head(q) THEN StrLess(Head(p), Head(q))
  ELSE PathLess(Tail(p), Tail(q))
\* The order in which a node's keywords are checked: that of the schema's keys.
KeywordRank(validator) ==
  CASE validator = "type" -> 1 [] validator = "const" -> 2
    [] validator = "properties" -> 3 [] OTHER -> 4
\* e comes before f in the sorted list: by path, and for one path in the
\* order the validator gave them (the sort is stable).
ErrorBefore(e, f) ==
  \/ PathLess(e.path, f.path)
  \/ e.path = f.path /\ KeywordRank(e.validator) < KeywordRank(f.validator)

\* Only one of the errors is kept.
first_error(errors) ==
  IF errors = {} THEN <<>> ELSE <<CHOOSE e \in errors : \A f \in errors \ {e} : ErrorBefore(e, f)>>

RECURSIVE sorted(_)
sorted(errors) ==
  IF errors = {} THEN <<>>
  ELSE LET e == CHOOSE x \in errors : \A f \in errors \ {x} : ErrorBefore(x, f)
       IN <<e>> \o sorted(errors \ {e})

\* ---------------------------------------------------------------- state
VARIABLES
  heap,               \* the dict objects the processor's fields refer to, by identifier
  parsed_usecase,     \* self.parsed_usecase: an object identifier
  dynamic_resolvers,  \* self.dynamic_resolvers: a sequence of [path, resolver]
  static_data,        \* self.static_data: the overlay, a sequence of [path, value] in dict order
  pc,                 \* where the dynamic_resolve call of this instance is
  updated_template,   \* dynamic_resolve's local: an object identifier, 0 outside a pass
  idx,                \* the list iterator of dynamic_resolve's for loop (1-based)
  pre_usecase,        \* history: the document parsed_usecase held when the pass began
  resolved,           \* history: the values the pass wrote so far, in order
  pass_status,        \* history: "none", "running", "ok" or the error the pass raised;
                      \* "discarded" once static_resolve has replaced what a pass committed
  compiled,           \* history: static_resolve has run
  last,               \* history: the operation that just ended and what it gave its caller
  \* HostMappingCache, the one instance: tasks of one event loop calling get_resolver_host
  cache,              \* self.cache: NoneValue or the mapping, a dict of strings
  task,               \* per task: where its call is, its argument, its response, its outcome
  fetches,            \* history: GETs of the mapping URL issued so far
  \* HostMappingCache.get_instance, called by threads
  instance,           \* cls._instance: NoInstance or the number of the instance
  lock,               \* cls._lock: the thread holding it, NoThread when free
  thread,             \* per thread: where its call is, the instance it made, what it returned
  constructed,        \* history: how many times __init__ ran
  \* DeeplinkResolver.fetch_usecase, one call at a time
  call,               \* where the call is, its locals, and what it gave its caller
  \* a function called on its own
  args,               \* the arguments of the call
  result              \* what the call returned, NoneValue before it

cache_vars == <<cache, task, fetches>>
singleton_vars == <<instance, lock, thread, constructed>>
resolver_vars == <<call>>
harness_vars == <<args, result>>

engine_vars == <<heap, parsed_usecase, dynamic_resolvers, static_data, pc,
                 updated_template, idx, pre_usecase, resolved, pass_status, compiled, last>>

Oids == 1 .. NumOids
NoRef == 0
EmptyDoc == Dict(EmptyD)

\* The identifier a new object gets: the least one no live object holds.
Fresh(live) == CHOOSE o \in Oids \ live : \A p \in Oids \ live : o <= p

\* Unreferenced objects are reclaimed.
Collect(h, live) == [o \in Oids |-> IF o \in live THEN h[o] ELSE EmptyDoc]

\* $schema is removed from the schema given to the constructor.
InputSchema == ("$schema" :> Str("http://json-schema.org/draft-07/schema#")) @@ UsecaseSchema
usecase_schema == [k \in DOMAIN InputSchema \ {"$schema"} |-> InputSchema[k]]

\* ------------------------------------------------------------ overlays
\* The YAML files the model loads: that of the tests for the schema's leaves,
\* one whose first value is a mapping that a later key path leads into, and one
\* that puts a string where the schema has an object.
OverlayFull ==
  << [path |-> <<"context", "version">>, value |-> Str("1.0.0")],
     [path |-> <<"context", "location", "city">>, value |-> Str("Bangalore")],
     [path |-> <<"message", "tags">>, value |-> List(<<Str("search")>>)] >>
OverlayNested ==
  << [path |-> <<"context", "location">>, value |-> Dict([city |-> Str("Mysore")])],
     [path |-> <<"context", "location", "city">>, value |-> Str("Bangalore")] >>
OverlayFlat ==
  << [path |-> <<"context", "version">>, value |-> Str("1.0.0")],
     [path |-> <<"message">>, value |-> Str("flat")] >>
Overlays == {OverlayFull, OverlayNested, OverlayFlat}

\* yaml.safe_load: every mapping of the file is an object of its own.
load_yaml_file(o) ==
  [i \in DOMAIN o |-> [path |-> o[i].path, value |-> Owned(o[i].value, i, <<>>)]]

\* --------------------------------------------------------- heap writes
\* No copy is made: the "copy" is the object itself.
deepcopy_omitted(h, src, fresh) == [heap |-> h, ref |-> src]

\* copy.deepcopy(h[src]) as a new object `fresh`.
deepcopy(h, src, fresh) == [heap |-> [h EXCEPT ![fresh] = DeepValue(h[src])], ref |-> fresh]

\* _set_nested_value on object o: o is written in place, and so is every object
\* reached on the way, wherever else it is referred to.
Write(w, o, keys, value) ==
  LET t == SetNestedValue(w.heap[o], keys, value) IN
  [heap |-> [p \in Oids |-> IF p = o THEN t ELSE Refresh(w.heap[p], t)],
   static_data |-> [i \in DOMAIN w.static_data |->
                      [w.static_data[i] EXCEPT !.value = Refresh(@, t)]]]

\* The for loop of apply_yaml_values from entry i on, writing into object r.
RECURSIVE ApplyEntries(_, _, _)
ApplyEntries(w, r, i) ==
  IF i > Len(w.static_data) THEN w
  ELSE ApplyEntries(Write(w, r, w.static_data[i].path, w.static_data[i].value), r, i + 1)

\* The copy is returned with no overlay entry applied.
apply_yaml_values_skipped(h, sd, pu, fresh) ==
  LET c == deepcopy(h, pu, fresh) IN
  [world |-> [heap |-> c.heap, static_data |-> sd], ref |-> c.ref]

\* apply_yaml_values: the world after the call and the object it returns.
apply_yaml_values(h, sd, pu, fresh) ==
  LET c == deepcopy(h, pu, fresh) IN
  [world |-> ApplyEntries([heap |-> c.heap, static_data |-> sd], c.ref, 1), ref |-> c.ref]

\* ------------------------------------------------------------- results
NoDetail == <<>>
Outcome(op, status, value, detail) ==
  [op |-> op, status |-> status, value |-> value, detail |-> detail]

\* ------------------------------------------------------------ resolvers
UrlResolver == [kind |-> "url", arg |-> "http://api.example.com/value"]
StrResolver == [kind |-> "str", arg |-> "literal value"]
SyncResolver == [kind |-> "callable", arg |-> "sync"]
AsyncResolver == [kind |-> "callable", arg |-> "async"]
BadResolver == [kind |-> "other", arg |-> "42"]
Resolvers == {UrlResolver, StrResolver, SyncResolver, AsyncResolver, BadResolver}

\* The registrations the model makes: the two of the tests' second scenario
\* (an async function on message.dynamic_value, a URL on context.location.city),
\* a literal on the ancestor path context.location, a plain function on the
\* sibling path context.version, and an unsupported resolver.
Registrations ==
  { [path |-> <<"message", "dynamic_value">>, resolver |-> AsyncResolver],
    [path |-> <<"context", "location", "city">>, resolver |-> UrlResolver],
    [path |-> <<"context", "location">>, resolver |-> StrResolver],
    [path |-> <<"context", "version">>, resolver |-> SyncResolver],
    [path |-> <<"message", "dynamic_value">>, resolver |-> BadResolver] }

\* What client.get gives: a response of the mock transport of the tests, or an
\* exception of the transport.
Responses ==
  { [error |-> FALSE, status_code |-> 200, text |-> "dynamic api value"],
    [error |-> FALSE, status_code |-> 404, text |-> "Not Found"],
    [error |-> TRUE, status_code |-> 0, text |-> ""] }

\* What calling a callable resolver gives: its return value, or it raises.
CallOutcomes ==
  { [error |-> FALSE, value |-> Str("function resolved value")],
    [error |-> TRUE, value |-> NoneValue] }

\* isinstance(resolver, httpx.URL) / isinstance(resolver, str) / callable(resolver)
is_url(resolver) == resolver.kind = "url"
is_str(resolver) == resolver.kind = "str"
is_callable(resolver) == resolver.kind = "callable"
iscoroutinefunction(resolver) == resolver.kind = "callable" /\ resolver.arg = "async"

\* ----------------------------------------------------------------- Init
EngineInit ==
  /\ heap = [o \in Oids |-> EmptyDoc]
  /\ parsed_usecase = 1
  /\ dynamic_resolvers = <<>>
  /\ static_data \in {load_yaml_file(o) : o \in Overlays}
  /\ pc = "idle"
  /\ updated_template = NoRef
  /\ idx = 0
  /\ pre_usecase = EmptyDoc
  /\ resolved = <<>>
  /\ pass_status = "none"
  /\ compiled = FALSE
  /\ last = Outcome("__init__", "ok", NoneValue, NoDetail)

\* The pass is suspended at an await (or there is none): other callers may run.
Suspended == pc \in {"idle", "get", "call", "exit"}
Live == {parsed_usecase} \cup (IF updated_template = NoRef THEN {} ELSE {updated_template})

\* The history of a pass describes the pass in flight or the one that just ended:
\* any other operation that runs while no pass is in flight forgets it.
ForgetPass ==
  IF pc = "idle" THEN pre_usecase' = EmptyDoc /\ resolved' = <<>> /\ pass_status' = "none"
                 ELSE UNCHANGED <<pre_usecase, resolved, pass_status>>

\* ------------------------------------------------------------- actions
\* static_resolve: callers serialize it with dynamic_resolve on one instance.
\* The overlay is applied to the current document instead of a new template.
static_resolve_onto_current(h, sd, pu) == apply_yaml_values(h, sd, pu, Fresh({pu}))

static_resolve_body(h, sd, pu) ==
  LET template == Fresh({pu})
      h1 == [h EXCEPT ![template] = process_schema_with_const(usecase_schema)]
  IN apply_yaml_values(h1, sd, template, Fresh({template}))

static_resolve ==
  /\ pc = "idle"
  /\ LET r == static_resolve_body(heap, static_data, parsed_usecase)
     IN /\ parsed_usecase' = r.ref
        /\ heap' = Collect(r.world.heap, {r.ref})
        /\ static_data' = r.world.static_data
        /\ pass_status' = IF pass_status = "ok" /\ resolved # <<>>
                                /\ ~StructEq(r.world.heap[r.ref], heap[parsed_usecase])
                             THEN "discarded" ELSE "none"
  /\ compiled' = TRUE
  /\ last' = Outcome("static_resolve", "ok", NoneValue, NoDetail)
  /\ pre_usecase' = EmptyDoc /\ resolved' = <<>>
  /\ UNCHANGED <<cache_vars, singleton_vars, resolver_vars, harness_vars>>
  /\ UNCHANGED <<dynamic_resolvers, pc, updated_template, idx>>

\* A call of apply_yaml_values on its own: the copy goes to the caller.
apply_yaml_values_call ==
  /\ Suspended
  /\ LET r == apply_yaml_values(heap, static_data, parsed_usecase, Fresh(Live))
     IN /\ heap' = Collect(r.world.heap, Live)
        /\ static_data' = r.world.static_data
        /\ last' = Outcome("apply_yaml_values", "ok", r.world.heap[r.ref], NoDetail)
  /\ ForgetPass
  /\ UNCHANGED <<cache_vars, singleton_vars, resolver_vars, harness_vars>>
  /\ UNCHANGED <<parsed_usecase, dynamic_resolvers, pc, updated_template, idx, compiled>>

\* An entry with the same path is replaced instead of a new one being appended.
add_dynamic_resolver_dedup(path, resolver) ==
  /\ Suspended
  /\ Len(dynamic_resolvers) < MaxResolvers
  /\ dynamic_resolvers' =
       IF \E i \in DOMAIN dynamic_resolvers : dynamic_resolvers[i].path = path
         THEN [i \in DOMAIN dynamic_resolvers |->
                 IF dynamic_resolvers[i].path = path
                   THEN [path |-> path, resolver |-> resolver] ELSE dynamic_resolvers[i]]
         ELSE Append(dynamic_resolvers, [path |-> path, resolver |-> resolver])
  /\ last' = Outcome("add_dynamic_resolver", "ok", NoneValue, NoDetail)
  /\ ForgetPass
  /\ UNCHANGED <<cache_vars, singleton_vars, resolver_vars, harness_vars>>
  /\ UNCHANGED <<heap, parsed_usecase, static_data, pc, updated_template, idx, compiled>>

add_dynamic_resolver(path, resolver) ==
  /\ Suspended
  /\ Len(dynamic_resolvers) < MaxResolvers
  /\ dynamic_resolvers' = Append(dynamic_resolvers, [path |-> path, resolver |-> resolver])
  /\ last' = Outcome("add_dynamic_resolver", "ok", NoneValue, NoDetail)
  /\ ForgetPass
  /\ UNCHANGED <<cache_vars, singleton_vars, resolver_vars, harness_vars>>
  /\ UNCHANGED <<heap, parsed_usecase, static_data, pc, updated_template, idx, compiled>>

get_parsed_usecase ==
  /\ Suspended
  /\ LET errors == sorted(iter_errors(usecase_schema, heap[parsed_usecase], <<>>))
     IN last' = IF errors # <<>>
                  THEN Outcome("get_parsed_usecase", "ValueError", heap[parsed_usecase], errors)
                  ELSE Outcome("get_parsed_usecase", "ok", heap[parsed_usecase], NoDetail)
  /\ UNCHANGED <<cache_vars, singleton_vars, resolver_vars, harness_vars>>
  /\ UNCHANGED <<heap, parsed_usecase, dynamic_resolvers, static_data, pc,
                 updated_template, idx, pre_usecase, resolved, pass_status, compiled>>


\* ---- dynamic_resolve, one action per stretch of code between two awaits ----
pass_frame == <<dynamic_resolvers, pre_usecase, compiled, cache_vars, singleton_vars, resolver_vars, harness_vars>>

\* The call starts: the working copy is made and the client is opened.
dynamic_resolve_begin ==
  /\ pc = "idle"
  /\ LET c == deepcopy(heap, parsed_usecase, Fresh({parsed_usecase}))
     IN /\ heap' = c.heap
        /\ updated_template' = c.ref
  /\ pc' = "loop"
  /\ idx' = 1
  /\ pre_usecase' = DeepValue(heap[parsed_usecase])
  /\ resolved' = <<>>
  /\ pass_status' = "running"
  /\ last' = Outcome("dynamic_resolve", "running", NoneValue, NoDetail)
  /\ UNCHANGED <<parsed_usecase, dynamic_resolvers, static_data, compiled,
                 cache_vars, singleton_vars, resolver_vars, harness_vars>>

\* The entry the for loop is at; the list is read when the iterator advances.
AtEntry == pc = "loop" /\ idx <= Len(dynamic_resolvers)
entry == dynamic_resolvers[idx]

\* The value is set in the document of parsed_usecase itself.
Apply_in_place(value) ==
  LET w == Write([heap |-> heap, static_data |-> static_data], parsed_usecase,
               entry.path, value)
  IN /\ heap' = w.heap
     /\ static_data' = w.static_data
     /\ resolved' = Append(resolved, value)
     /\ idx' = idx + 1
     /\ pc' = "loop"
     /\ UNCHANGED <<parsed_usecase, updated_template, pass_status, last>>

\* self._set_nested_value(updated_template, path_str, value), then the next entry.
Apply(value) ==
  LET w == Write([heap |-> heap, static_data |-> static_data], updated_template,
               entry.path, value)
  IN /\ heap' = w.heap
     /\ static_data' = w.static_data
     /\ resolved' = Append(resolved, value)
     /\ idx' = idx + 1
     /\ pc' = "loop"
     /\ UNCHANGED <<parsed_usecase, updated_template, pass_status, last>>

\* An exception leaves the call: the working copy is dropped.
Raise(status, message) ==
  /\ pc' = "idle"
  /\ updated_template' = NoRef
  /\ heap' = Collect(heap, {parsed_usecase})
  /\ idx' = 0
  /\ pass_status' = status
  /\ last' = Outcome("dynamic_resolve", status, Str(message), NoDetail)
  /\ UNCHANGED <<parsed_usecase, static_data, resolved>>

\* response = await client.get(resolver): the call is suspended.
dynamic_resolve_get ==
  /\ AtEntry /\ is_url(entry.resolver)
  /\ pc' = "get"
  /\ UNCHANGED <<heap, parsed_usecase, static_data, updated_template, idx, resolved,
                 pass_status, last>>
  /\ UNCHANGED pass_frame

\* The response arrives; value = response.text whatever the status.
dynamic_resolve_response(response) ==
  /\ pc = "get"
  /\ ~response.error
  /\ Apply(Str(response.text))
  /\ UNCHANGED pass_frame

\* client.get raises instead.
dynamic_resolve_transport_error(response) ==
  /\ pc = "get"
  /\ response.error
  /\ Raise("TransportError", "transport error")
  /\ UNCHANGED pass_frame

\* value = resolver
dynamic_resolve_literal ==
  /\ AtEntry /\ ~is_url(entry.resolver) /\ is_str(entry.resolver)
  /\ Apply(Str(entry.resolver.arg))
  /\ UNCHANGED pass_frame

\* value = resolver() for a plain function.
dynamic_resolve_call(outcome) ==
  /\ AtEntry /\ ~is_url(entry.resolver) /\ ~is_str(entry.resolver)
  /\ is_callable(entry.resolver) /\ ~iscoroutinefunction(entry.resolver)
  /\ IF outcome.error THEN Raise("ResolverError", "the resolver raised")
                      ELSE Apply(outcome.value)
  /\ UNCHANGED pass_frame

\* value = await resolver() for a coroutine function: the call is suspended.
dynamic_resolve_await ==
  /\ AtEntry /\ ~is_url(entry.resolver) /\ ~is_str(entry.resolver)
  /\ is_callable(entry.resolver) /\ iscoroutinefunction(entry.resolver)
  /\ pc' = "call"
  /\ UNCHANGED <<heap, parsed_usecase, static_data, updated_template, idx, resolved,
                 pass_status, last>>
  /\ UNCHANGED pass_frame

\* The coroutine ends.
dynamic_resolve_awaited(outcome) ==
  /\ pc = "call"
  /\ IF outcome.error THEN Raise("ResolverError", "the resolver raised")
                      ELSE Apply(outcome.value)
  /\ UNCHANGED pass_frame

\* raise TypeError(...)
dynamic_resolve_type_error ==
  /\ AtEntry /\ ~is_url(entry.resolver) /\ ~is_str(entry.resolver)
  /\ ~is_callable(entry.resolver)
  /\ Raise("TypeError", "Resolver must be either a URL string or a callable function")
  /\ UNCHANGED pass_frame

\* The loop runs over the list as it was before an entry was appended during
\* the pass: it ends without the appended entry.
dynamic_resolve_loop_end_snapshot ==
  /\ pc = "loop"
  /\ \/ idx > Len(dynamic_resolvers)
     \/ last.op = "add_dynamic_resolver" /\ idx = Len(dynamic_resolvers)
  /\ pc' = "exit"
  /\ UNCHANGED <<heap, parsed_usecase, static_data, updated_template, idx, resolved,
                 pass_status, last>>
  /\ UNCHANGED pass_frame

\* The for loop ends; leaving `async with` awaits the closing of the client.
dynamic_resolve_loop_end ==
  /\ pc = "loop" /\ idx > Len(dynamic_resolvers)
  /\ pc' = "exit"
  /\ UNCHANGED <<heap, parsed_usecase, static_data, updated_template, idx, resolved,
                 pass_status, last>>
  /\ UNCHANGED pass_frame

\* self.parsed_usecase = updated_template
dynamic_resolve_commit ==
  /\ pc = "exit"
  /\ parsed_usecase' = updated_template
  /\ updated_template' = NoRef
  /\ heap' = Collect(heap, {updated_template})
  /\ pc' = "idle"
  /\ idx' = 0
  /\ pass_status' = "ok"
  /\ last' = Outcome("dynamic_resolve", "ok", NoneValue, NoDetail)
  /\ UNCHANGED <<static_data, resolved>>
  /\ UNCHANGED pass_frame

dynamic_resolve ==
  \/ dynamic_resolve_begin
  \/ dynamic_resolve_get
  \/ \E response \in Responses : dynamic_resolve_response(response)
  \/ \E response \in Responses : dynamic_resolve_transport_error(response)
  \/ dynamic_resolve_literal
  \/ \E outcome \in CallOutcomes : dynamic_resolve_call(outcome)
  \/ dynamic_resolve_await
  \/ \E outcome \in CallOutcomes : dynamic_resolve_awaited(outcome)
  \/ dynamic_resolve_type_error
  \/ dynamic_resolve_loop_end
  \/ dynamic_resolve_commit

EngineNext ==
  \/ static_resolve
  \/ apply_yaml_values_call
  \/ \E e \in Registrations : add_dynamic_resolver(e.path, e.resolver)
  \/ get_parsed_usecase
  \/ dynamic_resolve

\* ------------------------------------------------- HostMappingCache
Tasks == 1 .. NumTasks
Hosts == {"resolver.beckn.org", "sub.resolver.beckn.org"}

\* What the GET of the mapping URL gives: the mapping as it stands at the source
\* at that moment (it may have changed, or be empty), an error status, or an
\* exception of the transport.
MappingResponses ==
  { [error |-> FALSE, status_code |-> 200,
     json |-> Dict([h \in {"resolver.beckn.org"} |-> Str("https://mapped.host")])],
    [error |-> FALSE, status_code |-> 200,
     json |-> Dict([h \in {"sub.resolver.beckn.org"} |-> Str("https://other.host")])],
    [error |-> FALSE, status_code |-> 200, json |-> Dict(EmptyD)],
    [error |-> FALSE, status_code |-> 404, json |-> Str("Not Found")],
    [error |-> TRUE, status_code |-> 0, json |-> NoneValue] }
NoResponse == [error |-> FALSE, status_code |-> 0, json |-> NoneValue]

\* dict.get(key): the value, None when the key is absent.
DictGet(d, key) == IF key \in DOMAIN d.d THEN d.d[key] ELSE NoneValue

\* `if not self.cache`: an empty mapping counts as no mapping.
cache_is_falsy(c) == c = NoneValue \/ c = Dict(EmptyD)

\* if self.cache is None
cache_is_none(c) == c = NoneValue

\* The body stored before the status is looked at.
cache_stored_unchecked(c, response) == response.json

\* fetch_mapping after the response: self.cache once the status was checked.
cache_after_fetch(c, response) == IF response.status_code # 200 THEN c ELSE response.json

NewTask ==
  [pc |-> "start", host |-> "", response |-> NoResponse, result |-> NoneValue,
   error |-> "", fetched |-> FALSE, answered |-> NoneValue]

CacheInit ==
  /\ cache = NoneValue
  /\ task = [t \in Tasks |-> NewTask]
  /\ fetches = 0

\* get_resolver_host(deeplink_host) up to its first await: with a mapping in the
\* cache it answers at once, without one it enters fetch_mapping and is
\* suspended in client.get.
get_resolver_host(t, deeplink_host) ==
  /\ task[t].pc = "start"
  /\ IF cache_is_none(cache)
       THEN /\ task' = [task EXCEPT ![t].pc = "get", ![t].host = deeplink_host,
                                    ![t].fetched = TRUE]
            /\ fetches' = fetches + 1
       ELSE /\ task' = [task EXCEPT ![t].pc = "returned", ![t].host = deeplink_host,
                                    ![t].result = DictGet(cache, deeplink_host),
                                    ![t].answered = cache]
            /\ fetches' = fetches
  /\ UNCHANGED <<cache, engine_vars, singleton_vars, resolver_vars, harness_vars>>

\* The response arrives; leaving `async with` awaits the closing of the client.
fetch_mapping_response(t, response) ==
  /\ task[t].pc = "get"
  /\ ~response.error
  /\ task' = [task EXCEPT ![t].pc = "close", ![t].response = response]
  /\ UNCHANGED <<cache, fetches, engine_vars, singleton_vars, resolver_vars, harness_vars>>

\* client.get raises instead: the exception leaves get_resolver_host.
fetch_mapping_transport_error(t, response) ==
  /\ task[t].pc = "get"
  /\ response.error
  /\ task' = [task EXCEPT ![t].pc = "raised", ![t].error = "TransportError"]
  /\ UNCHANGED <<cache, fetches, engine_vars, singleton_vars, resolver_vars, harness_vars>>

\* The rest of fetch_mapping and of get_resolver_host, which has no await:
\* the status check, self.cache = response.json(), return self.cache.get(...).
fetch_mapping_end(t) ==
  /\ task[t].pc = "close"
  /\ cache' = cache_after_fetch(cache, task[t].response)
  /\ task' = IF task[t].response.status_code # 200
               THEN [task EXCEPT ![t].pc = "raised",
                                 ![t].error = "ValueError: Failed to fetch mapping data"]
               ELSE [task EXCEPT ![t].pc = "returned",
                                 ![t].result = DictGet(cache', task[t].host),
                                 ![t].answered = cache']
  /\ UNCHANGED <<fetches, engine_vars, singleton_vars, resolver_vars, harness_vars>>

CacheNext ==
  \/ \E t \in Tasks, h \in Hosts : get_resolver_host(t, h)
  \/ \E t \in Tasks, r \in MappingResponses : fetch_mapping_response(t, r)
  \/ \E t \in Tasks, r \in MappingResponses : fetch_mapping_transport_error(t, r)
  \/ \E t \in Tasks : fetch_mapping_end(t)

\* --------------------------------------- HostMappingCache.get_instance
Threads == 1 .. NumThreads
NoInstance == 0
NoThread == 0

\* `if not cls._instance:` before the lock is taken.
first_check(inst) == inst = NoInstance

\* The second check dropped: every thread that took the lock constructs.
second_check_dropped(inst) == TRUE

\* `if not cls._instance:` under the lock.
second_check(inst) == inst = NoInstance

SingletonInit ==
  /\ instance = NoInstance
  /\ lock = NoThread
  /\ thread = [t \in Threads |-> [pc |-> "check", made |-> NoInstance, returned |-> NoInstance]]
  /\ constructed = 0

\* if not cls._instance:
get_instance_check(t) ==
  /\ thread[t].pc = "check"
  /\ thread' = [thread EXCEPT ![t].pc = IF first_check(instance) THEN "acquire" ELSE "return"]
  /\ UNCHANGED <<instance, lock, constructed, engine_vars, cache_vars, resolver_vars, harness_vars>>

\* with cls._lock:
get_instance_acquire(t) ==
  /\ thread[t].pc = "acquire"
  /\ lock = NoThread
  /\ lock' = t
  /\ thread' = [thread EXCEPT ![t].pc = "recheck"]
  /\ UNCHANGED <<instance, constructed, engine_vars, cache_vars, resolver_vars, harness_vars>>

\* if not cls._instance: (under the lock)
get_instance_recheck(t) ==
  /\ thread[t].pc = "recheck"
  /\ thread' = [thread EXCEPT ![t].pc = IF second_check(instance) THEN "construct" ELSE "release"]
  /\ UNCHANGED <<instance, lock, constructed, engine_vars, cache_vars, resolver_vars, harness_vars>>

\* cls(): __init__ runs and gives a new instance.
get_instance_construct(t) ==
  /\ thread[t].pc = "construct"
  /\ constructed' = constructed + 1
  /\ thread' = [thread EXCEPT ![t].pc = "assign", ![t].made = constructed + 1]
  /\ UNCHANGED <<instance, lock, engine_vars, cache_vars, resolver_vars, harness_vars>>

\* cls._instance = <the new instance>
get_instance_assign(t) ==
  /\ thread[t].pc = "assign"
  /\ instance' = thread[t].made
  /\ thread' = [thread EXCEPT ![t].pc = "release"]
  /\ UNCHANGED <<lock, constructed, engine_vars, cache_vars, resolver_vars, harness_vars>>

\* The with block ends.
get_instance_release(t) ==
  /\ thread[t].pc = "release"
  /\ lock' = NoThread
  /\ thread' = [thread EXCEPT ![t].pc = "return"]
  /\ UNCHANGED <<instance, constructed, engine_vars, cache_vars, resolver_vars, harness_vars>>

\* return cls._instance
get_instance_return(t) ==
  /\ thread[t].pc = "return"
  /\ thread' = [thread EXCEPT ![t].pc = "done", ![t].returned = instance]
  /\ UNCHANGED <<instance, lock, constructed, engine_vars, cache_vars, resolver_vars, harness_vars>>

SingletonNext ==
  \/ \E t \in Threads : get_instance_check(t)
  \/ \E t \in Threads : get_instance_acquire(t)
  \/ \E t \in Threads : get_instance_recheck(t)
  \/ \E t \in Threads : get_instance_construct(t)
  \/ \E t \in Threads : get_instance_assign(t)
  \/ \E t \in Threads : get_instance_release(t)
  \/ \E t \in Threads : get_instance_return(t)

\* ---------------------------------------------------- DeeplinkResolver
\* str.split(sep): the pieces of s between the occurrences of sep.
RECURSIVE split(_, _, _)
split(s, sep, from) ==
  LET n == Len(sep)
      hits == {i \in from .. (Len(s) - n + 1) : SubSeq(s, i, i + n - 1) = sep}
  IN IF hits = {} THEN <<SubSeq(s, from, Len(s))>>
     ELSE LET i == CHOOSE h \in hits : \A g \in hits : h <= g
          IN <<SubSeq(s, from, i - 1)>> \o split(s, sep, i + n)

\* The deeplinks of the calls: those of the tests, one without a UUID part, one
\* without "://".
Deeplinks ==
  { "beckn://resolver.beckn.org/12345",
    "beckn://sub.resolver.beckn.org/12345-6789-0000",
    "beckn://resolver.beckn.org",
    "resolver.beckn.org/12345" }

\* extract_resolver_and_uuid: (resolver, uuid), or the ValueError it raises.
extract_resolver_and_uuid(deeplink) ==
  LET halves == split(deeplink, "://", 1) IN
  IF Len(halves) < 2
    THEN [ok |-> FALSE, resolver |-> "", uuid |-> ""]
    ELSE LET parts == split(halves[2], "/", 1) IN
         IF Len(parts) < 2
           THEN [ok |-> FALSE, resolver |-> "", uuid |-> ""]
           ELSE [ok |-> TRUE, resolver |-> parts[1], uuid |-> parts[2]]

\* What the GET of the usecase gives: the document of the tests, a 404, or an
\* exception of the transport.
UsecaseResponses ==
  { [error |-> FALSE, status_code |-> 200, json |-> Dict([type |-> Str("object")])],
    [error |-> FALSE, status_code |-> 404, json |-> Str("Not Found")],
    [error |-> TRUE, status_code |-> 0, json |-> NoneValue] }

\* str(response.status_code) for the statuses above.
StatusText(code) == CASE code = 200 -> "200" [] code = 404 -> "404" [] OTHER -> "0"
\* not resolver_host
is_falsy(v) == v = NoneValue \/ v = Str("")

NoError == [type |-> "", message |-> ""]
IdleCall ==
  [pc |-> "idle", n |-> 0, deeplink |-> "", resolver |-> "", uuid |-> "", url |-> "",
   bound |-> FALSE, cause |-> "", error |-> NoError, value |-> NoneValue]
ResolverInit == call = IdleCall

Raised(c, cause, type, message) ==
  [c EXCEPT !.pc = "raised", !.cause = cause, !.error = [type |-> type, message |-> message]]

\* Lines 30-33 once get_resolver_host has returned resolver_host: the check of
\* the host, the URL, and the suspension in client.get.
host_found(c, resolver_host) ==
  IF is_falsy(resolver_host)
    THEN Raised(c, "host", "ValueError", "Resolver host not found")
    ELSE [c EXCEPT !.pc = "get", !.url = resolver_host.s \o "/" \o c.uuid]

\* fetch_usecase up to its first await. HostMappingCache.get_instance() makes the
\* instance if there is none; get_resolver_host answers at once from a mapping
\* or is suspended in the fetch of the mapping.
fetch_usecase_begin(deeplink) ==
  /\ call.pc \in {"idle", "returned", "raised"}
  /\ call.n < MaxCalls
  /\ LET e == extract_resolver_and_uuid(deeplink)
         c == [IdleCall EXCEPT !.n = call.n + 1, !.deeplink = deeplink,
                               !.resolver = e.resolver, !.uuid = e.uuid]
     IN IF ~e.ok
          THEN /\ call' = Raised(c, "deeplink", "ValueError", "Invalid deeplink format")
               /\ UNCHANGED <<instance, constructed>>
          ELSE /\ instance' = IF first_check(instance) THEN constructed + 1 ELSE instance
               /\ constructed' = IF first_check(instance) THEN constructed + 1 ELSE constructed
               /\ call' = IF cache_is_none(cache) THEN [c EXCEPT !.pc = "mapping"]
                          ELSE host_found(c, DictGet(cache, e.resolver))
  /\ UNCHANGED <<cache, task, fetches, lock, thread, engine_vars, harness_vars>>

\* The fetch of the mapping ends: fetch_mapping raises, or stores the mapping
\* and get_resolver_host returns the entry of the resolver.
fetch_usecase_mapping(response) ==
  /\ call.pc = "mapping"
  /\ cache' = IF response.error THEN cache ELSE cache_after_fetch(cache, response)
  /\ fetches' = fetches + 1
  /\ call' = IF response.error
               THEN Raised(call, "mapping", "TransportError", "transport error")
             ELSE IF response.status_code # 200
               THEN Raised(call, "mapping", "ValueError", "Failed to fetch mapping data")
             ELSE host_found(call, DictGet(cache', call.resolver))
  /\ UNCHANGED <<task, engine_vars, singleton_vars, harness_vars>>

\* client.get(url) gives a response: `response` is bound, line 40 checks it.
fetch_usecase_response(response) ==
  /\ call.pc = "get"
  /\ ~response.error
  /\ call' = IF response.status_code # 200
               THEN Raised([call EXCEPT !.bound = TRUE], "status", "ValueError",
                           "Error fetching usecase: HTTP " \o StatusText(response.status_code))
               ELSE [call EXCEPT !.pc = "returned", !.bound = TRUE, !.value = response.json]
  /\ UNCHANGED <<engine_vars, cache_vars, singleton_vars, harness_vars>>

\* client.get(url) raises: the except clause prints and passes, `response` was
\* never assigned, and line 40 reads it.
fetch_usecase_transport_error(response) ==
  /\ call.pc = "get"
  /\ response.error
  /\ call' = Raised(call, "transport", "UnboundLocalError",
                    "cannot access local variable 'response' where it is not associated with a value")
  /\ UNCHANGED <<engine_vars, cache_vars, singleton_vars, harness_vars>>

ResolverNext ==
  \/ \E deeplink \in Deeplinks : fetch_usecase_begin(deeplink)
  \/ \E response \in MappingResponses : fetch_usecase_mapping(response)
  \/ \E response \in UsecaseResponses : fetch_usecase_response(response)
  \/ \E response \in UsecaseResponses : fetch_usecase_transport_error(response)

\* ------------------------------------------------------ specifications
vars == <<engine_vars, cache_vars, singleton_vars, resolver_vars, harness_vars>>
HarnessIdle == args = NoneValue /\ result = NoneValue
Init == EngineInit /\ CacheInit /\ SingletonInit /\ ResolverInit /\ HarnessIdle

\* The processor: one BecknProcessor and the calls made on it.
Next == EngineNext
Spec == Init /\ [][Next]_vars

\* The host mapping cache: tasks of one event loop calling get_resolver_host.
\* (No processor takes part: its overlay is fixed.)
ComponentInit == Init /\ static_data = load_yaml_file(OverlayFull)
CacheSpec == ComponentInit /\ [][CacheNext]_vars

\* The singleton: threads calling HostMappingCache.get_instance.
SingletonSpec == ComponentInit /\ [][SingletonNext]_vars

\* The deeplink resolver: calls of fetch_usecase, one after the other.
ResolverSpec == ComponentInit /\ [][ResolverNext]_vars

\* -------------------------------------------- functions called on their own
\* The arguments of the _set_nested_value calls: mappings with nested
\* mappings, strings, numbers and a list; paths of one to three segments, one
\* with an empty segment; values of each kind.
MutatorDocs ==
  { Dict(EmptyD),
    Dict([a |-> Num(1)]),
    Dict([a |-> Dict([b |-> Num(1)]), x |-> Num(2)]),
    Dict([a |-> Dict([b |-> Dict([c |-> Num(1), d |-> Num(2)]), e |-> Num(3)]),
          x |-> Dict([y |-> Num(4)])]),
    Dict([a |-> Str("s"), x |-> List(<<Num(1)>>)]),
    Dict([a |-> Dict([b |-> Str("s")])]) }
MutatorPaths == {"a", "x", "a.b", "x.y", "a.b.c", "a..b", ""}
MutatorValues == {Num(5), Str("v"), Dict([k |-> Num(1)]), NoneValue}
MutatorInputs ==
  [data : MutatorDocs, key_path : MutatorPaths, value : MutatorValues]

\* BecknProcessor._set_nested_value(data, key_path, value); `result` is data as
\* the call left it.
set_nested_value_call ==
  /\ result = NoneValue
  /\ result' = SetNestedValue(args.data, split(args.key_path, ".", 1), args.value)
  /\ UNCHANGED <<args, engine_vars, cache_vars, singleton_vars, resolver_vars>>

MutatorInit ==
  /\ EngineInit /\ static_data = load_yaml_file(OverlayFull)
  /\ CacheInit /\ SingletonInit /\ ResolverInit
  /\ args \in MutatorInputs
  /\ result = NoneValue
MutatorNext == set_nested_value_call
MutatorSpec == MutatorInit /\ [][MutatorNext]_vars

\* The schemas compiled on their own: nodes with const (alone, and with an
\* object or array type and properties or items), typed leaves, objects and
\* arrays without properties or items, nodes with keys the descriptor copies
\* and keys it drops; objects and arrays made of those; the schema of the tests.
SchemaNodes ==
  { StringSchema,
    [type |-> "string", const |-> Str("mobility")],
    [const |-> NoneValue],
    [type |-> "object", const |-> Dict([fixed |-> Num(1)]),
     properties |-> [fixed |-> [type |-> "integer"]]],
    [type |-> "array", const |-> List(<<Num(1)>>), items |-> StringSchema],
    [type |-> "object"],
    [type |-> "array"],
    [items |-> StringSchema],
    [type |-> "string", required |-> List(<<Str("a")>>), enum |-> List(<<Str("a")>>)] }
CompilerSchemas ==
  SchemaNodes
  \cup {[type |-> "object", properties |-> [p |-> x, q |-> y]] : x \in SchemaNodes, y \in SchemaNodes}
  \cup {[type |-> "array", items |-> x] : x \in SchemaNodes}
  \cup {[type |-> "array", items |-> [type |-> "object", properties |-> [p |-> x]]] : x \in SchemaNodes}
  \cup {UsecaseSchema}

\* self.process_schema_with_const(schema), called up to twice on the same
\* schema; `result` is the sequence of the templates returned.
process_schema_call ==
  /\ Len(result) < 2
  /\ result' = Append(result, process_schema_with_const(args.schema))
  /\ UNCHANGED <<args, engine_vars, cache_vars, singleton_vars, resolver_vars>>

CompilerInit ==
  /\ EngineInit /\ static_data = load_yaml_file(OverlayFull)
  /\ CacheInit /\ SingletonInit /\ ResolverInit
  /\ args \in [schema : CompilerSchemas]
  /\ result = <<>>
CompilerNext == process_schema_call
CompilerSpec == CompilerInit /\ [][CompilerNext]_vars

\* ============================== HostMappingCache ==============================
InFetch(t) == task[t].pc \in {"get", "close"}

\* C2: single-flight population. Tasks that call get_resolver_host while the
\* mapping is uninitialized share one fetch: a fetch of the mapping URL is never
\* issued while another is in flight, and the calls that fetched and returned
\* answered from the same mapping.
C2_SingleFlight ==
  \A t1, t2 \in Tasks :
    t1 # t2 =>
      /\ ~(InFetch(t1) /\ InFetch(t2))
      /\ (task[t1].fetched /\ task[t2].fetched
            /\ task[t1].pc = "returned" /\ task[t2].pc = "returned")
           => task[t1].answered = task[t2].answered

\* C3: a call of get_resolver_host whose fetch of the mapping answered with a
\* status other than 200 ends by raising the fetch error (it returns neither a
\* host nor None), and that step leaves self.cache as it was: None stays None.
FetchFails(t) ==
  /\ task[t].pc = "close"
  /\ task[t].response.status_code # 200
  /\ task'[t] # task[t]
C3_FailedFetchLeavesCache ==
  [][\A t \in Tasks :
       FetchFails(t) =>
         /\ task'[t].pc = "raised"
         /\ task'[t].error = "ValueError: Failed to fetch mapping data"
         /\ task'[t].result = NoneValue /\ task'[t].answered = NoneValue
         /\ cache' = cache]_vars
C3_Witness ==
  \E t \in Tasks :
    /\ task[t].pc = "raised"
    /\ task[t].response.status_code = 404
    /\ cache = NoneValue

\* C4: the cache goes from uninitialized to populated and never back. It leaves
\* None only by the end of a fetch that answered 200; once it holds a mapping it
\* never holds None again; a call that starts while it holds a mapping issues
\* no fetch, returns at once the stored mapping's entry and leaves the mapping.
StartsPopulated(t) ==
  /\ cache # NoneValue
  /\ task[t].pc = "start"
  /\ task'[t].pc # "start"
C4_Lifecycle ==
  [][/\ cache # NoneValue => cache' # NoneValue
     /\ (cache = NoneValue /\ cache' # NoneValue) =>
          \E t \in Tasks : /\ task[t].pc = "close"
                            /\ task[t].response.status_code = 200
                            /\ cache' = task[t].response.json
     /\ \A t \in Tasks :
          StartsPopulated(t) =>
            /\ fetches' = fetches
            /\ cache' = cache
            /\ task'[t].pc = "returned"
            /\ task'[t].result = DictGet(cache, task'[t].host)]_vars
C4_Witness ==
  \E t \in Tasks :
    /\ task[t].pc = "returned"
    /\ ~task[t].fetched
    /\ cache # NoneValue
    /\ task[t].result = DictGet(cache, task[t].host)
    /\ fetches = 1

\* C5: however the threads calling get_instance interleave, __init__ runs at
\* most once, and the calls that returned all returned that one instance.
C5_SingletonOnce ==
  /\ constructed <= 1
  /\ \A t \in Threads :
       thread[t].pc = "done" => thread[t].returned = 1 /\ instance = 1 /\ constructed = 1
\* A thread passed the unlocked check, took the lock after another thread had
\* made the instance, and was stopped by the check under the lock.
C5_Witness ==
  \E t1, t2 \in Threads :
    /\ thread[t1].pc = "done"
    /\ thread[t2].pc = "release" /\ thread[t2].made = NoInstance /\ lock = t2
    /\ constructed = 1


\* ------------------------------------------------- BecknProcessor claims
\* The document parsed_usecase refers to.
Doc == heap[parsed_usecase]
\* The pass raised: the ways an entry's value can fail to be computed.
Failures == {"TransportError", "ResolverError", "TypeError"}
PassFailed == pass_status \in Failures
\* The last pass ran to its end and published its working copy.
Committed == pass_status = "ok"
\* The path of the i-th entry the pass wrote.
PathOf(i) == dynamic_resolvers[i].path
Written == 1 .. Len(resolved)

\* The pass's writes made on doc in the order of a sequence of entry indices.
RECURSIVE Replay(_, _)
Replay(doc, order) ==
  IF order = <<>> THEN doc
  ELSE Replay(SetNestedValue(doc, PathOf(Head(order)), resolved[Head(order)]), Tail(order))
InOrder == [i \in Written |-> i]
Reversed == [i \in Written |-> Len(resolved) + 1 - i]

\* C1: a dynamic pass is atomic.  While it runs, and after it has raised on an
\* entry (transport failure, resolver exception, unsupported resolver), the
\* document parsed_usecase refers to is the one the pass started from, however
\* many entries were already written to the working copy.
C1_Atomicity ==
  (pass_status = "running" \/ PassFailed) => StructEq(Doc, pre_usecase)

\* A pass that raised after it had written its first entry's value, which the
\* document does not show.
C1_Witness ==
  /\ PassFailed
  /\ Len(resolved) >= 1
  /\ GetPath(Doc, PathOf(1)) # resolved[1]
  /\ StructEq(Doc, pre_usecase)

\* C6: of two entries with overlapping paths the later registered one wins.
\* After a pass has committed, the document is the starting document with the
\* writes made in registration order; an entry j that overlaps an earlier one
\* and is overlapped by no later one has its value at its path; if j's path is
\* an ancestor of the earlier path, nothing is left below it; if it is a
\* descendant, the earlier path holds a mapping.
C6_LastRegisteredWins ==
  Committed =>
    /\ StructEq(Doc, Replay(pre_usecase, InOrder))
    /\ \A i \in Written, j \in Written :
         ( /\ i < j
           /\ Overlap(PathOf(i), PathOf(j))
           /\ \A k \in Written : k > j => ~Overlap(PathOf(k), PathOf(j)) )
         => /\ GetPath(Doc, PathOf(j)) = resolved[j]
            /\ IsProperPrefix(PathOf(j), PathOf(i)) => ~HasPath(Doc, PathOf(i))
            /\ IsProperPrefix(PathOf(i), PathOf(j)) => IsDict(GetPath(Doc, PathOf(i)))

\* A committed pass whose second entry is a descendant of its first: the first
\* path holds a mapping with the second value in it.
C6_Witness ==
  /\ Committed
  /\ Len(resolved) = 2
  /\ IsProperPrefix(PathOf(1), PathOf(2))
  /\ IsDict(GetPath(Doc, PathOf(1)))
  /\ GetPath(Doc, PathOf(2)) = resolved[2]

\* C7: entries on paths none of which is a prefix of another are independent.
\* After a pass over such entries has committed, every entry's value is at its
\* path, and the document is the one the writes give in the opposite order.
PairwiseApart ==
  \A i \in Written, j \in Written : i # j => ~Overlap(PathOf(i), PathOf(j))

C7_Independence ==
  (Committed /\ PairwiseApart) =>
    /\ \A i \in Written : GetPath(Doc, PathOf(i)) = resolved[i]
    /\ StructEq(Doc, Replay(pre_usecase, Reversed))

\* A committed pass over two sibling paths under the same parent, both values
\* in the document.
C7_Witness ==
  /\ Committed
  /\ Len(resolved) = 2
  /\ PairwiseApart
  /\ PathOf(1)[1] = PathOf(2)[1]
  /\ GetPath(Doc, PathOf(1)) = resolved[1]
  /\ GetPath(Doc, PathOf(2)) = resolved[2]


\* ---- schema paths ----
\* The compiler expands this node (its object or array branch).
IsObjectNode(schema) ==
  "const" \notin DOMAIN schema /\ SchemaType(schema) = Str("object") /\ "properties" \in DOMAIN schema
IsArrayNode(schema) ==
  "const" \notin DOMAIN schema /\ SchemaType(schema) = Str("array") /\ "items" \in DOMAIN schema

\* The dot-paths of the nodes that are not expanded into a mapping.
RECURSIVE LeafPaths(_, _)
LeafPaths(schema, path) ==
  IF IsObjectNode(schema)
    THEN UNION {LeafPaths(schema.properties[k], Append(path, k)) : k \in DOMAIN schema.properties}
    ELSE {path}
\* The dot-paths of the object nodes, and those of the array nodes.
RECURSIVE ObjectPaths(_, _)
ObjectPaths(schema, path) ==
  IF IsObjectNode(schema)
    THEN {path} \cup
         UNION {ObjectPaths(schema.properties[k], Append(path, k)) : k \in DOMAIN schema.properties}
    ELSE {}
RECURSIVE SchemaAt(_, _)
SchemaAt(schema, path) ==
  IF path = <<>> THEN schema ELSE SchemaAt(schema.properties[Head(path)], Tail(path))

Leaves == LeafPaths(usecase_schema, <<>>)
ConstLeaves == {p \in Leaves : "const" \in DOMAIN SchemaAt(usecase_schema, p)}
ArrayPaths == {p \in Leaves : IsArrayNode(SchemaAt(usecase_schema, p))}
NodePaths == ObjectPaths(usecase_schema, <<>>) \cup ArrayPaths

\* C9: apply_yaml_values returns a deep copy of the template with every overlay
\* entry applied in order, and leaves the template and the overlay map as they
\* were before the call.
RECURSIVE OverlayApplied(_, _, _)
OverlayApplied(doc, sd, i) ==
  IF i > Len(sd) THEN doc
  ELSE OverlayApplied(SetNestedValue(doc, sd[i].path, sd[i].value), sd, i + 1)
ApplyStep == last'.op = "apply_yaml_values" /\ pc' = pc /\ idx' = idx

C9_OverlayNonMutation ==
  [][ApplyStep =>
       /\ StructEq(last'.value, OverlayApplied(DeepValue(Doc), static_data, 1))
       /\ parsed_usecase' = parsed_usecase
       /\ heap'[parsed_usecase] = Doc
       /\ static_data' = static_data]_vars

\* ---- the three layers ----
\* The document static_resolve produces from the schema and the overlay.
StaticDoc ==
  LET r == static_resolve_body(heap, static_data, parsed_usecase) IN r.world.heap[r.ref]
\* The last pass committed, and it had started from static_resolve's document.
AfterStaticAndDynamic == Committed /\ compiled /\ StructEq(pre_usecase, StaticDoc)

Registered(p) == \E i \in Written : PathOf(i) = p
DynamicValue(p) ==
  resolved[CHOOSE i \in Written : PathOf(i) = p /\ \A k \in Written : PathOf(k) = p => k <= i]
OverlayLists(p) == \E i \in DOMAIN static_data : static_data[i].path = p
OverlayValue(p) == static_data[CHOOSE i \in DOMAIN static_data : static_data[i].path = p].value

\* The leaf holds the value of the topmost layer that has one for it.
Layered(p) ==
  IF Registered(p) THEN GetPath(Doc, p) = DynamicValue(p)
  ELSE IF OverlayLists(p) THEN StructEq(GetPath(Doc, p), OverlayValue(p))
  ELSE p \in ConstLeaves => GetPath(Doc, p) = SchemaAt(usecase_schema, p).const
AllCovered == \A p \in Leaves \ ConstLeaves : Registered(p) \/ OverlayLists(p)
\* What the compiler put at the leaf is still there.
DescriptorAt(p) ==
  StructEq(GetPath(Doc, p), process_schema_with_const(SchemaAt(usecase_schema, p)))
\* get_parsed_usecase returns the document: no validation error, no descriptor
\* at a leaf without const, and a call that was made returned it.
ReturnsMerged ==
  /\ iter_errors(usecase_schema, Doc, <<>>) = {}
  /\ \A p \in Leaves \ ConstLeaves : ~DescriptorAt(p)
  /\ last.op = "get_parsed_usecase" => last.status = "ok" /\ StructEq(last.value, Doc)

\* C8 as stated: after static_resolve and a committed pass every leaf holds the
\* dynamic value if a resolver is registered for it, else the overlay value if
\* the overlay lists it, else the const; and with every leaf without const
\* covered, get_parsed_usecase returns that document, free of descriptors.
C8_ThreeLayerMerge ==
  AfterStaticAndDynamic =>
    /\ \A p \in Leaves : Layered(p)
    /\ AllCovered => ReturnsMerged

\* No overlay path and no written resolver path is a proper ancestor or a
\* proper descendant of a leaf path.
ApartFromLeaves(q) == \A p \in Leaves : Overlap(q, p) => q = p
PathsClean ==
  /\ \A i \in Written : ApartFromLeaves(PathOf(i))
  /\ \A i \in DOMAIN static_data : ApartFromLeaves(static_data[i].path)
\* Every overlay path and written resolver path is a leaf path, and the value
\* written there is valid against the leaf's schema.
ValidAt(p, v) == p \in Leaves /\ iter_errors(SchemaAt(usecase_schema, p), v, <<>>) = {}
WritesValid ==
  /\ \A i \in Written : ValidAt(PathOf(i), resolved[i])
  /\ \A i \in DOMAIN static_data : ValidAt(static_data[i].path, static_data[i].value)

\* C8, restricted: the layering holds when no overlay or resolver path is a
\* proper ancestor or descendant of a leaf path; get_parsed_usecase returns the
\* merged document when, in addition to every leaf without const being covered,
\* all those paths are leaf paths and the values written are valid for them.
C8_ThreeLayerMergeApart ==
  (AfterStaticAndDynamic /\ PathsClean) =>
    /\ \A p \in Leaves : Layered(p)
    /\ (AllCovered /\ WritesValid) => ReturnsMerged

\* The first scenario of the tests, get_parsed_usecase having returned: const,
\* overlay value and resolved value each at its leaf.
C8_Witness ==
  /\ AfterStaticAndDynamic /\ PathsClean /\ AllCovered /\ WritesValid
  /\ last.op = "get_parsed_usecase" /\ last.status = "ok"
  /\ Registered(<<"message", "dynamic_value">>)
  /\ ~Registered(<<"context", "version">>)
  /\ GetPath(last.value, <<"message", "dynamic_value">>) = Str("function resolved value")
  /\ GetPath(last.value, <<"context", "version">>) = Str("1.0.0")
  /\ GetPath(last.value, <<"context", "domain">>) = Str("mobility")

\* ---- shape ----
\* v has the shape of the schema's expanded nodes: a mapping with each declared
\* property at an object node, a sequence at an array node.
RECURSIVE Shaped(_, _)
Shaped(schema, v) ==
  IF IsObjectNode(schema)
    THEN /\ IsDict(v)
         /\ \A k \in DOMAIN schema.properties :
              k \in DOMAIN v.d /\ Shaped(schema.properties[k], v.d[k])
  ELSE IF IsArrayNode(schema) THEN IsList(v)
  ELSE TRUE

\* C10 as stated: in every reachable state parsed_usecase has the shape of the
\* schema's object and array nodes.
C10_ShapeAlways == Shaped(usecase_schema, Doc)

\* A write of v at path q keeps the shape: it does not lead through an array
\* node, and at the path of an object or array node v has that node's shape.
KeepsShape(q, v) ==
  /\ \A a \in ArrayPaths : ~IsProperPrefix(a, q)
  /\ q \in NodePaths => Shaped(SchemaAt(usecase_schema, q), v)
ShapeKept ==
  /\ \A i \in DOMAIN static_data : KeepsShape(static_data[i].path, static_data[i].value)
  /\ \A i \in DOMAIN dynamic_resolvers :
       /\ dynamic_resolvers[i].path \notin NodePaths
       /\ \A a \in ArrayPaths : ~IsProperPrefix(a, dynamic_resolvers[i].path)

\* C10, restricted: once static_resolve has run, parsed_usecase has the shape of
\* the schema's object and array nodes, provided no resolver is registered at the
\* path of such a node, every overlay value at such a path has the node's shape,
\* and no overlay or resolver path leads through an array node.
C10_ShapeAfterStatic == (compiled /\ ShapeKept) => Shaped(usecase_schema, Doc)

\* static_resolve has run and a pass that wrote below an object node has
\* committed; the document has the shape.
C10_Witness ==
  /\ compiled /\ ShapeKept /\ Committed
  /\ \E i \in Written : Len(PathOf(i)) = 3
  /\ Shaped(usecase_schema, Doc)
  /\ StructEq(pre_usecase, StaticDoc)


\* ---- errors of a pass ----
\* The bodies of the responses that are not a success.
ErrorBodies == {Str(r.text) : r \in {q \in Responses : ~q.error /\ q.status_code # 200}}

\* C11: a URI resolver whose endpoint answers with a status other than 200 is a
\* fetch error: a pass in which that happened commits nothing, so no committed
\* pass has written the body of such a response as an entry's value.
C11_NonSuccessIsFetchError ==
  Committed =>
    \A i \in Written : is_url(dynamic_resolvers[i].resolver) => resolved[i] \notin ErrorBodies

\* path_str: the segments joined with dots.
RECURSIVE PathStr(_)
PathStr(keys) ==
  IF Len(keys) = 1 THEN keys[1] ELSE keys[1] \o "." \o PathStr(Tail(keys))
\* The text contains the string s.
Mentions(text, s) ==
  \E i \in 1 .. (Len(text) - Len(s) + 1) : SubSeq(text, i, i + Len(s) - 1) = s

\* C12: an entry whose resolver is neither a URI, a string nor a callable ends
\* the pass at once with a type error whose message names the entry's path;
\* nothing is committed and no later entry is fetched or called.
C12_TypeErrorNamesPath ==
  [][(pass_status = "running" /\ pass_status' = "TypeError") =>
       /\ Mentions(last'.value.s, PathStr(entry.path))
       /\ pc' = "idle"
       /\ Len(resolved') = idx - 1
       /\ StructEq(heap'[parsed_usecase'], pre_usecase)]_vars


\* ============================== DeeplinkResolver ==============================
\* C13: when the GET of the usecase fails in the transport, after the resolver
\* host was found, fetch_usecase ends with the error it raises for a response
\* that is not 200 (ValueError "Error fetching usecase ..."), not with another
\* exception and not with a result.
C13_TransportFailureIsFetchError ==
  call.cause = "transport" =>
    /\ call.pc = "raised"
    /\ call.error.type = "ValueError"
    /\ Mentions(call.error.message, "Error fetching usecase")


\* ============================== validation ==============================
\* A step that is a call of get_parsed_usecase.
GetStep == last'.op = "get_parsed_usecase" /\ pc' = pc /\ idx' = idx

\* C14: get_parsed_usecase is a pure all-or-nothing check. It returns the
\* document of parsed_usecase exactly when the document has no violation;
\* otherwise it raises ValueError carrying every violation, ordered by path,
\* and the document. Either way the documents, parsed_usecase, the overlay and
\* the resolver list are as before.
C14_ValidatorPure ==
  [][GetStep =>
       LET violations == iter_errors(usecase_schema, Doc, <<>>) IN
       /\ last'.status = (IF violations = {} THEN "ok" ELSE "ValueError")
       /\ last'.value = Doc
       /\ {last'.detail[i] : i \in DOMAIN last'.detail} = violations
       /\ Len(last'.detail) = Cardinality(violations)
       /\ \A i \in DOMAIN last'.detail, j \in DOMAIN last'.detail :
            i < j => ~PathLess(last'.detail[j].path, last'.detail[i].path)
       /\ UNCHANGED <<heap, parsed_usecase, dynamic_resolvers, static_data>>]_vars

\* A call that raised with violations at more than one path.
C14_Witness ==
  /\ last.op = "get_parsed_usecase" /\ last.status = "ValueError"
  /\ \E i \in DOMAIN last.detail, j \in DOMAIN last.detail :
       PathLess(last.detail[i].path, last.detail[j].path)
  /\ last.value = Doc


\* ============================== the mutator ==============================
\* out is data with value set at keys: at every level the keys off the path
\* are as they were, the key on the path is there, an intermediate that was
\* absent or not a mapping has become a mapping holding only the rest of the
\* path, and the last key holds value.
RECURSIVE SetAt(_, _, _, _)
SetAt(data, keys, value, out) ==
  LET key == Head(keys) IN
  /\ IsDict(out)
  /\ DOMAIN out.d = DOMAIN data.d \cup {key}
  /\ \A k \in DOMAIN data.d \ {key} : out.d[k] = data.d[k]
  /\ IF Len(keys) = 1 THEN out.d[key] = value
     ELSE SetAt(IF key \in DOMAIN data.d /\ IsDict(data.d[key]) THEN data.d[key] ELSE Dict(EmptyD),
                Tail(keys), value, out.d[key])

\* C15: _set_nested_value(data, key_path, value) replaces each intermediate of
\* the path that is absent or not a mapping with an empty mapping, sets the
\* last segment to value whatever was there, and leaves every key off the path
\* as it was; 'a.b.c' set to 5 on {} gives {a: {b: {c: 5}}}.
C15_MutatorSemantics ==
  result # NoneValue =>
    LET keys == split(args.key_path, ".", 1) IN
    /\ SetAt(args.data, keys, args.value, result)
    /\ GetPath(result, keys) = args.value
    /\ \A n \in 1 .. (Len(keys) - 1) : IsDict(GetPath(result, SubSeq(keys, 1, n)))
    /\ (args.data = Dict(EmptyD) /\ args.key_path = "a.b.c" /\ args.value = Num(5))
         => result = Dict([a |-> Dict([b |-> Dict([c |-> Num(5)])])])

\* 'a.b.c' was set on a mapping whose 'a' is a string: the string is gone, the
\* other key is as it was.
C15_Witness ==
  /\ result # NoneValue
  /\ args.key_path = "a.b.c"
  /\ "a" \in DOMAIN args.data.d /\ args.data.d["a"] = Str("s")
  /\ result.d["a"] = Dict([b |-> Dict([c |-> args.value])])
  /\ result.d["x"] = args.data.d["x"]


\* ============================== the compiler ==============================
\* t is what the rules give for the schema: the const when there is one, else
\* a mapping of the compiled properties for an object with properties, else a
\* one-element sequence of the compiled items for an array with items, else a
\* descriptor with the type and the copied keys.
RECURSIVE CompiledAs(_, _)
CompiledAs(schema, t) ==
  IF "const" \in DOMAIN schema THEN t = schema.const
  ELSE IF "type" \in DOMAIN schema /\ schema.type = "object" /\ "properties" \in DOMAIN schema
    THEN /\ IsDict(t)
         /\ DOMAIN t.d = DOMAIN schema.properties
         /\ \A k \in DOMAIN t.d : CompiledAs(schema.properties[k], t.d[k])
  ELSE IF "type" \in DOMAIN schema /\ schema.type = "array" /\ "items" \in DOMAIN schema
    THEN IsList(t) /\ Len(t.l) = 1 /\ CompiledAs(schema.items, t.l[1])
  ELSE /\ IsDict(t)
       /\ DOMAIN t.d = {"type"} \cup (DOMAIN schema \cap
            {"properties", "items", "required", "oneOf", "additionalProperties"})
       /\ t.d["type"] = (IF "type" \in DOMAIN schema THEN Str(schema.type) ELSE NoneValue)
       /\ \A k \in DOMAIN t.d \ {"type"} : t.d[k] = JsonOf(schema).d[k]

\* C16: process_schema_with_const follows the compilation rules, const first;
\* it changes neither the schema nor the processor, and a second call on the
\* same schema returns a template equal to the first.
C16_CompileRulesAndPurity ==
  [][result' # result =>
       /\ \A i \in DOMAIN result' : CompiledAs(args.schema, result'[i])
       /\ \A i \in DOMAIN result', j \in DOMAIN result' : StructEq(result'[i], result'[j])
       /\ args' = args
       /\ UNCHANGED engine_vars]_vars

\* Two calls on an object schema with const and properties: both returned the
\* const.
C16_Witness ==
  /\ Len(result) = 2
  /\ "const" \in DOMAIN args.schema /\ "properties" \in DOMAIN args.schema
  /\ result[1] = args.schema.const /\ result[2] = args.schema.const


\* ============================== passes and the cell ==============================
\* C17: no intermediate state of a pass can be observed. While a pass is in
\* flight the document of parsed_usecase is the one the pass started from, and
\* that is what get_parsed_usecase reads; the cell changes only in the step
\* that ends the pass, after the last entry was applied, to the working copy
\* with every write made.
C17_NoIntermediateState ==
  [][pass_status = "running" =>
       /\ StructEq(Doc, pre_usecase)
       /\ GetStep => StructEq(last'.value, pre_usecase)
       /\ (parsed_usecase' # parsed_usecase \/ ~StructEq(heap'[parsed_usecase'], Doc)) =>
            /\ pc = "exit" /\ pass_status' = "ok"
            /\ Len(resolved) = idx - 1
            /\ parsed_usecase' = updated_template
            /\ StructEq(heap'[parsed_usecase'], Replay(pre_usecase, InOrder))]_vars

\* The pass has written its first entry, a literal, to the working copy and is
\* suspended in the fetch of its second; get_parsed_usecase, called meanwhile,
\* read the document the pass started from.
C17_Witness ==
  /\ pc = "get" /\ idx = 2 /\ Len(resolved) = 1
  /\ is_str(dynamic_resolvers[1].resolver)
  /\ last.op = "get_parsed_usecase"
  /\ StructEq(last.value, pre_usecase)
  /\ ~StructEq(heap[updated_template], Doc)


\* ============================== the resolver list ==============================
\* A step that is a call of add_dynamic_resolver.
AddStep == last'.op = "add_dynamic_resolver" /\ pc' = pc /\ idx' = idx /\ vars' # vars

\* C18: the resolver list is append-only. add_dynamic_resolver appends one
\* entry at the end, also for a path that is already there, and changes
\* nothing else of the processor; no other operation changes the list; a pass
\* starts at the first entry and ends its loop with every entry resolved.
C18_AppendOnly ==
  [][/\ AddStep =>
          /\ Len(dynamic_resolvers') = Len(dynamic_resolvers) + 1
          /\ UNCHANGED <<heap, parsed_usecase, static_data, pc, updated_template, idx>>
     /\ dynamic_resolvers' # dynamic_resolvers =>
          /\ AddStep
          /\ SubSeq(dynamic_resolvers', 1, Len(dynamic_resolvers)) = dynamic_resolvers
     /\ (pass_status # "running" /\ pass_status' = "running") => idx' = 1 /\ resolved' = <<>>
     /\ (pc # "exit" /\ pc' = "exit") => Len(resolved) = Len(dynamic_resolvers)]_vars

\* Two entries with the same path are in the list, and a pass has resolved
\* both.
C18_Witness ==
  /\ Len(dynamic_resolvers) = 2
  /\ PathOf(1) = PathOf(2)
  /\ Committed /\ Len(resolved) = 2


\* ============================== static_resolve ==============================
\* A step that is a call of static_resolve.
StaticStep == last'.op = "static_resolve" /\ pc' = pc /\ idx' = idx

\* C19: static_resolve rebuilds from the schema and is idempotent. Whatever
\* came before, it leaves in parsed_usecase the overlay applied to a newly
\* compiled template, so nothing of the previous document (values of earlier
\* passes included) is kept; a second static_resolve right after it gives the
\* same document; the resolver list is as before.
C19_StaticResolveRebuilds ==
  [][StaticStep =>
       /\ StructEq(heap'[parsed_usecase'],
                   OverlayApplied(process_schema_with_const(usecase_schema), static_data, 1))
       /\ LET again == static_resolve_body(heap', static_data', parsed_usecase')
          IN StructEq(again.world.heap[again.ref], heap'[parsed_usecase'])
       /\ dynamic_resolvers' = dynamic_resolvers]_vars

\* static_resolve has just replaced a document to which a pass had committed
\* values: the document is the overlay on the compiled template again.
C19_Witness ==
  /\ last.op = "static_resolve"
  /\ pass_status = "discarded"
  /\ dynamic_resolvers # <<>>
  /\ StructEq(Doc, StaticDoc)


\* ============================== the live list ==============================
\* The value is one the resolver can give.
ValueOf(resolver, value) ==
  IF is_url(resolver) THEN value \in {Str(r.text) : r \in {q \in Responses : ~q.error}}
  ELSE IF is_str(resolver) THEN value = Str(resolver.arg)
  ELSE value \in {o.value : o \in {q \in CallOutcomes : ~q.error}}

\* C20: a pass iterates the live list. The loop ends only when every entry of
\* the list as it then stands has been resolved, in list order, entries
\* appended while the pass was suspended included; the pass commits the
\* pre-pass document with exactly those writes made.
C20_LiveListIteration ==
  [][/\ (pc # "exit" /\ pc' = "exit") =>
          /\ Len(resolved) = Len(dynamic_resolvers)
          /\ \A i \in Written : ValueOf(dynamic_resolvers[i].resolver, resolved[i])
     /\ (pc = "exit" /\ pc' = "idle") =>
          /\ resolved' = resolved
          /\ StructEq(heap'[parsed_usecase'], Replay(pre_usecase, InOrder))]_vars

\* The loop has ended with every entry resolved, and add_dynamic_resolver was
\* called during the pass before that: the appended entry was resolved by this
\* pass.
C20_Witness ==
  /\ pc = "exit"
  /\ last.op = "add_dynamic_resolver"
  /\ Len(dynamic_resolvers) >= 2
  /\ Len(resolved) = Len(dynamic_resolvers)
  /\ GetPath(heap[updated_template], PathOf(Len(resolved))) = resolved[Len(resolved)]

=============================================================================
